---- MODULE Spec2Model ----
(* Model of the resume analyzer: ResumeAnalyzer (src/agent.py) and the two  *)
(* Streamlit front ends (main of src/agent.py, main of src/strUi.py).       *)
(*                                                                          *)
(* A Python str is a sequence of tokens (a token is a character or an       *)
(* indivisible literal chunk).  An Optional[str] is a record                *)
(* [isNone, s]: None is distinct from the empty string.                     *)
EXTENDS Integers, Sequences, FiniteSets, TLC

(***************************************************************************)
(* Bounds of the model                                                     *)
(***************************************************************************)
MaxPages == 2
MaxParas == 2
StreamLen == 2
MaxCalls == 5

(***************************************************************************)
(* Python values                                                           *)
(***************************************************************************)
None == [isNone |-> TRUE, s |-> <<>>]
Str(s) == [isNone |-> FALSE, s |-> s]
EmptyStr == Str(<<>>)

\* bool(v) of an Optional[str]: None and "" are falsy
Truthy(v) == (~v.isNone) /\ Len(v.s) > 0

Whitespace == {" ", "\n"}

RECURSIVE LStrip(_)
LStrip(s) == IF s = <<>> THEN <<>>
             ELSE IF Head(s) \in Whitespace THEN LStrip(Tail(s)) ELSE s

RECURSIVE RStrip(_)
RStrip(s) == IF s = <<>> THEN <<>>
             ELSE IF s[Len(s)] \in Whitespace THEN RStrip(SubSeq(s, 1, Len(s) - 1)) ELSE s

\* str.strip()
Strip(s) == RStrip(LStrip(s))

\* sub in s  (Python substring test, on tokens)
Contains(s, sub) ==
    \E i \in 0..(Len(s) - Len(sub)) : SubSeq(s, i + 1, i + Len(sub)) = sub

\* sep.join(parts)
RECURSIVE Join(_, _)
Join(sep, parts) ==
    IF parts = <<>> THEN <<>>
    ELSE IF Len(parts) = 1 THEN parts[1]
    ELSE parts[1] \o sep \o Join(sep, Tail(parts))

LowerChar(c) ==
    CASE c = "P" -> "p" [] c = "D" -> "d" [] c = "F" -> "f"
      [] c = "O" -> "o" [] c = "C" -> "c" [] c = "X" -> "x"
      [] c = "T" -> "t" [] c = "R" -> "r"
      [] OTHER -> c

\* str.lower()
Lower(s) == [i \in 1..Len(s) |-> LowerChar(s[i])]

\* str.rfind(c): 1-based index of the last occurrence, 0 if none
RECURSIVE RFind(_, _)
RFind(s, c) == IF s = <<>> THEN 0
               ELSE IF s[Len(s)] = c THEN Len(s)
               ELSE RFind(SubSeq(s, 1, Len(s) - 1), c)

\* os.path.splitext(p)[1]: the suffix from the last dot of the last path
\* component, unless that component has only leading dots before it
SplitExt(p) ==
    LET sepIndex == RFind(p, "/")
        dotIndex == RFind(p, ".")
    IN IF dotIndex > sepIndex
          /\ \E i \in (sepIndex + 1)..(dotIndex - 1) : p[i] # "."
       THEN SubSeq(p, dotIndex, Len(p))
       ELSE <<>>

(***************************************************************************)
(* Uploaded files                                                          *)
(***************************************************************************)
\* what page.extract_text() does on one page
PageOutcomes ==
    { [raises |-> FALSE, val |-> Str(<<"a">>)],
      [raises |-> FALSE, val |-> Str(<<" ">>)],
      [raises |-> FALSE, val |-> EmptyStr],
      [raises |-> FALSE, val |-> None],
      [raises |-> TRUE,  val |-> None] }

ParaTexts == { <<"a">>, <<" ">>, <<>> }

SeqsUpTo(S, n) == UNION { [1..k -> S] : k \in 0..n }

\* fmt is the real format of the bytes, whatever the file is called;
\* size 0 is the zero-byte file
Contents ==
    { [fmt |-> "pdf", size |-> StreamLen, pages |-> p, paras |-> <<>>] :
          p \in SeqsUpTo(PageOutcomes, MaxPages) }
    \cup
    { [fmt |-> "docx", size |-> StreamLen, pages |-> <<>>, paras |-> p] :
          p \in SeqsUpTo(ParaTexts, MaxParas) }
    \cup
    { [fmt |-> "doc", size |-> StreamLen, pages |-> <<>>, paras |-> <<>>],
      [fmt |-> "other", size |-> StreamLen, pages |-> <<>>, paras |-> <<>>],
      [fmt |-> "other", size |-> 0, pages |-> <<>>, paras |-> <<>>] }

Names ==
    { <<"r", ".", "p", "d", "f">>,
      <<"r", ".", "P", "D", "F">>,
      <<"r", ".", "P", "d", "f">>,
      <<"r", ".", "d", "o", "c", "x">>,
      <<"r", ".", "D", "o", "c", "X">>,
      <<"r", ".", "d", "o", "c">>,
      <<"r", ".", "D", "O", "C">>,
      <<"r", ".", "t", "x", "t">>,
      <<"r", ".", "p", "d", "f", ".", "t", "x", "t">>,
      <<"r">>,
      <<".", "p", "d", "f">>,
      <<"a", ".", "p", "d", "f", "/", "r">> }

\* a falsy upload (st.file_uploader returned None)
NoFile == [present |-> FALSE, hasName |-> FALSE, name |-> <<>>,
           content |-> [fmt |-> "other", size |-> 0, pages |-> <<>>, paras |-> <<>>],
           pos |-> 0, closed |-> FALSE, lenient |-> FALSE]

\* an open stream over the content, named and positioned anywhere; lenient
\* says whether the parsing library copes with bytes whose head is cut off
\* (what it does with such bytes is not decided by this code)
Streams ==
    { [present |-> TRUE, hasName |-> TRUE, name |-> n, content |-> c,
       pos |-> p, closed |-> FALSE, lenient |-> l] :
          n \in Names, c \in Contents, p \in 0..StreamLen, l \in BOOLEAN }

\* a stream that was closed, and an object that is no upload at all
BrokenStreams ==
    { [present |-> TRUE, hasName |-> h, name |-> n,
       content |-> [fmt |-> "pdf", size |-> StreamLen,
                    pages |-> <<[raises |-> FALSE, val |-> Str(<<"a">>)]>>,
                    paras |-> <<>>],
       pos |-> p, closed |-> cl, lenient |-> FALSE] :
          h \in BOOLEAN, n \in {<<"r", ".", "p", "d", "f">>, <<"r", ".", "d", "o", "c", "x">>},
          p \in {0, 1}, cl \in BOOLEAN }

(***************************************************************************)
(* ResumeAnalyzer: text extraction                                         *)
(***************************************************************************)
\* str(e) and traceback.format_exc() of a caught exception
ExcText == <<"<exception>">>
Traceback == <<"<traceback>">>

\* a returned (text, error_message) with the stream position the call left
\* and the extractors that ran
Ret(text, error, pos, ran) ==
    [called |-> TRUE, text |-> text, error |-> error, pos |-> pos, ran |-> ran]

\* no extract_text call was made
NoExtraction == [called |-> FALSE, text |-> None, error |-> None, pos |-> 0, ran |-> {}]

\* file.read() raises on a closed stream
ReadRaises(f) == f.closed

\* pdfplumber.open(io.BytesIO(bytes)) / Document(io.BytesIO(bytes)) succeed
\* on bytes of that format: all of them, or a tail the library copes with
Opens(f, fmt) ==
    /\ f.content.fmt = fmt
    /\ f.content.size > 0
    /\ \/ f.pos = 0
       \/ f.pos < f.content.size /\ f.lenient

\* the page loop of extract_text_from_pdf, from page number n with text so far
RECURSIVE PdfPages(_, _, _)
PdfPages(pages, n, text) ==
    IF n > Len(pages)
    THEN IF Strip(text) = <<>>
         THEN [text |-> EmptyStr,
               error |-> Str(<<"No text could be extracted from the PDF. The file might be scanned or image-based.">>)]
         ELSE [text |-> Str(text), error |-> EmptyStr]
    ELSE IF pages[n].raises
         THEN [text |-> EmptyStr,
               error |-> Str(<<"Error extracting text from page ", ToString(n), ": ">> \o ExcText)]
         ELSE IF Truthy(pages[n].val)
              THEN PdfPages(pages, n + 1, text \o pages[n].val.s)
              ELSE [text |-> EmptyStr,
                    error |-> Str(<<"Page ", ToString(n), " appears to be empty or unreadable">>)]

PdfError == Str(<<"PDF processing error: ">> \o ExcText
                \o <<"\n\nTechnical details:\n">> \o Traceback)

\* as extract_text_from_pdf, without pdf_file.seek(0)
extract_text_from_pdf_noseek(f) ==
    IF ReadRaises(f)
    THEN Ret(EmptyStr, PdfError, f.pos, {"pdf"})
    ELSE IF ~Opens(f, "pdf")
         THEN Ret(EmptyStr, PdfError, f.content.size, {"pdf"})
         ELSE LET r == PdfPages(f.content.pages, 1, <<>>)
              IN Ret(r.text, r.error, f.content.size, {"pdf"})

\* as extract_text_from_pdf, with no message when the text is blank
extract_text_from_pdf_silent(f) ==
    IF ReadRaises(f)
    THEN Ret(EmptyStr, PdfError, f.pos, {"pdf"})
    ELSE IF ~Opens(f, "pdf")
         THEN Ret(EmptyStr, PdfError, 0, {"pdf"})
         ELSE LET r == PdfPages(f.content.pages, 1, <<>>)
              IN IF r.error = Str(<<"No text could be extracted from the PDF. The file might be scanned or image-based.">>)
                 THEN Ret(EmptyStr, EmptyStr, 0, {"pdf"})
                 ELSE Ret(r.text, r.error, 0, {"pdf"})

extract_text_from_pdf(f) ==
    IF ReadRaises(f)
    THEN Ret(EmptyStr, PdfError, f.pos, {"pdf"})
    ELSE IF ~Opens(f, "pdf")
         THEN Ret(EmptyStr, PdfError, 0, {"pdf"})
         ELSE LET r == PdfPages(f.content.pages, 1, <<>>)
              IN Ret(r.text, r.error, 0, {"pdf"})

DocxError == Str(<<"DOCX processing error: ">> \o ExcText
                 \o <<"\n\nTechnical details:\n">> \o Traceback)

\* as extract_text_from_docx, failing on any blank paragraph
extract_text_from_docx_failfast(f) ==
    IF ReadRaises(f)
    THEN Ret(EmptyStr, DocxError, f.pos, {"docx"})
    ELSE IF ~Opens(f, "docx")
         THEN Ret(EmptyStr, DocxError, 0, {"docx"})
         ELSE LET text == Join(<<"\n">>, f.content.paras)
              IN IF \/ Strip(text) = <<>>
                    \/ \E i \in 1..Len(f.content.paras) : Strip(f.content.paras[i]) = <<>>
                 THEN Ret(EmptyStr,
                          Str(<<"No text could be extracted from the DOCX file. The file might be empty or corrupted.">>),
                          0, {"docx"})
                 ELSE Ret(Str(text), EmptyStr, 0, {"docx"})

extract_text_from_docx(f) ==
    IF ReadRaises(f)
    THEN Ret(EmptyStr, DocxError, f.pos, {"docx"})
    ELSE IF ~Opens(f, "docx")
         THEN Ret(EmptyStr, DocxError, 0, {"docx"})
         ELSE LET text == Join(<<"\n">>, f.content.paras)
              IN IF Strip(text) = <<>>
                 THEN Ret(EmptyStr,
                          Str(<<"No text could be extracted from the DOCX file. The file might be empty or corrupted.">>),
                          0, {"docx"})
                 ELSE Ret(Str(text), EmptyStr, 0, {"docx"})

UnsupportedError(ext) ==
    Str(<<"Unsupported file type: ">> \o ext \o <<". Please upload a PDF or DOCX file.">>)

FileError == Str(<<"File processing error: ">> \o ExcText
                 \o <<"\n\nTechnical details:\n">> \o Traceback)

PdfExt == <<".", "p", "d", "f">>
DocxExt == <<".", "d", "o", "c", "x">>
DocExt == <<".", "d", "o", "c">>

\* as extract_text, without .lower()
extract_text_nolower(f) ==
    IF ~f.present
    THEN Ret(None, Str(<<"No file uploaded">>), f.pos, {})
    ELSE IF ~f.hasName
         THEN Ret(None, FileError, f.pos, {})
         ELSE LET file_extension == SplitExt(f.name)
              IN IF file_extension = PdfExt
                 THEN extract_text_from_pdf(f)
                 ELSE IF file_extension \in {DocxExt, DocExt}
                      THEN extract_text_from_docx(f)
                      ELSE Ret(None, UnsupportedError(file_extension), f.pos, {})

extract_text(f) ==
    IF ~f.present
    THEN Ret(None, Str(<<"No file uploaded">>), f.pos, {})
    ELSE IF ~f.hasName
         THEN Ret(None, FileError, f.pos, {})
         ELSE LET file_extension == Lower(SplitExt(f.name))
              IN IF file_extension = PdfExt
                 THEN extract_text_from_pdf(f)
                 ELSE IF file_extension \in {DocxExt, DocExt}
                      THEN extract_text_from_docx(f)
                      ELSE Ret(None, UnsupportedError(file_extension), f.pos, {})

(***************************************************************************)
(* ResumeAnalyzer: feedback                                                *)
(***************************************************************************)
\* self.default_prompts, in insertion order
DefaultPrompts ==
    << [key |-> "structure",  prompt |-> <<"<structure prompt>">>],
       [key |-> "skills",     prompt |-> <<"<skills prompt>">>],
       [key |-> "grammar",    prompt |-> <<"<grammar prompt>">>],
       [key |-> "experience", prompt |-> <<"<experience prompt>">>] >>

\* the prompts argument of analyze_resume: None, or a dict in insertion order
NoCatalog == [isNone |-> TRUE, items |-> <<>>]
Dict(items) == [isNone |-> FALSE, items |-> items]

Catalogs ==
    { NoCatalog,
      Dict(<<>>),
      Dict(<< [key |-> "tone", prompt |-> <<"<tone prompt>">>] >>),
      Dict(<< [key |-> "tone", prompt |-> <<"<tone prompt>">>],
              [key |-> "skills", prompt |-> <<"<my skills prompt>">>] >>) }

AllKeys == {"structure", "skills", "grammar", "experience", "tone"}

KeysOf(items) == { items[i].key : i \in 1..Len(items) }

\* what self.client.chat.completions.create does on one call: it raises
\* (network, authentication), or returns a completion whose choices list is
\* empty, or whose first message has content None, or has text content
Replies ==
    { [kind |-> "ok", content |-> Str(<<"<model text>">>)],
      [kind |-> "ok", content |-> None],
      [kind |-> "no_choices", content |-> None],
      [kind |-> "raise", content |-> Str(<<"Connection error.">>)],
      [kind |-> "raise", content |-> Str(<<"Invalid API Key">>)] }

ErrorFeedback(details) == Str(<<"Error getting feedback", ": ">> \o details)

\* f"{prompt}\n\nResume Text: {resume_text}"
Message(resume_text, prompt) == prompt \o <<"\n\nResume Text: ">> \o resume_text

\* as get_feedback_from_model, trying once more after an exception
get_feedback_from_model_retry(resume_text, prompt, reply) ==
    LET x == [request |-> Message(resume_text, prompt), reply |-> reply]
    IN CASE reply.kind = "raise" ->
              [ret |-> ErrorFeedback(reply.content.s), exchanges |-> <<x, x>>]
         [] reply.kind = "no_choices" ->
              [ret |-> ErrorFeedback(<<"list index out of range">>), exchanges |-> <<x>>]
         [] OTHER ->
              [ret |-> reply.content, exchanges |-> <<x>>]

\* one invocation: the value returned and the exchanges with the endpoint
get_feedback_from_model(resume_text, prompt, reply) ==
    LET x == [request |-> Message(resume_text, prompt), reply |-> reply]
    IN CASE reply.kind = "raise" ->
              [ret |-> ErrorFeedback(reply.content.s), exchanges |-> <<x>>]
         [] reply.kind = "no_choices" ->
              [ret |-> ErrorFeedback(<<"list index out of range">>), exchanges |-> <<x>>]
         [] OTHER ->
              [ret |-> reply.content, exchanges |-> <<x>>]

PromptOf(items, key) == (CHOOSE i \in 1..Len(items) : items[i].key = key)

\* the exchanges of the loop of analyze_resume over items, from entry i on
RECURSIVE LoopExchanges(_, _, _, _)
LoopExchanges(resume_text, items, replies, i) ==
    IF i > Len(items) THEN <<>>
    ELSE get_feedback_from_model(resume_text, items[i].prompt, replies[items[i].key]).exchanges
         \o LoopExchanges(resume_text, items, replies, i + 1)

\* the loop of analyze_resume: feedback[key] = get_feedback_from_model(...)
\* for each (key, prompt) of the dict, in order
AnalyzeLoop(resume_text, items, replies) ==
    [feedback |-> [k \in KeysOf(items) |->
                      get_feedback_from_model(resume_text, items[PromptOf(items, k)].prompt,
                                              replies[k]).ret],
     exchanges |-> LoopExchanges(resume_text, items, replies, 1),
     invocations |-> Len(items)]

EmptyFeedback == [k \in {} |-> None]

\* prompts or self.default_prompts
EffectivePrompts(prompts) ==
    IF prompts.isNone \/ prompts.items = <<>> THEN DefaultPrompts ELSE prompts.items

analyze_resume(resume_text, prompts, replies) ==
    AnalyzeLoop(resume_text, EffectivePrompts(prompts), replies)

analyze_single_prompt(resume_text, prompt, reply) ==
    LET r == get_feedback_from_model(resume_text, prompt, reply)
    IN [feedback |-> r.ret, exchanges |-> r.exchanges, invocations |-> 1]

Requests(exchanges) == [i \in 1..Len(exchanges) |-> exchanges[i].request]

(***************************************************************************)
(* The Streamlit scripts: one run of main per user interaction             *)
(***************************************************************************)
\* an element written to the page
W(w, label, v) == [w |-> w, label |-> label, v |-> v]

NoAnalysis == [feedback |-> EmptyFeedback, exchanges |-> <<>>, invocations |-> 0]

\* section.title()
Title(key) ==
    CASE key = "structure" -> "Structure" [] key = "skills" -> "Skills"
      [] key = "grammar" -> "Grammar" [] key = "experience" -> "Experience"
      [] OTHER -> key

\* for section, comments in feedback.items(): expander + st.write(comments)
Panels(items, feedback) ==
    [i \in 1..Len(items) |->
        W("write", <<Title(items[i].key), " Feedback">>, feedback[items[i].key])]

ErrorPage(e) ==
    << W("error", <<>>, e.error),
       W("info", <<>>, Str(<<"Troubleshooting tips:">>)),
       W("markdown", <<>>, Str(<<"<tips>">>)) >>

\* as ResumeTab, testing uploaded_file where resume_text is to be tested
ResumeTab_nocheck(in, replies) ==
    IF ~in.uploaded.present
    THEN [page |-> <<>>, extraction |-> NoExtraction, analysis |-> NoAnalysis]
    ELSE LET e == extract_text(in.uploaded)
             base == << W("success", <<>>, Str(<<"Resume text extracted successfully!">>)),
                        W("text_area", <<"Extracted Text">>, e.text) >>
         IN IF in.uploaded.present
            THEN IF in.analysis_type = "Default Analysis"
                 THEN IF in.pressed = "analyze_resume"
                      THEN LET a == analyze_resume((IF e.text.isNone THEN <<>> ELSE e.text.s), NoCatalog, replies)
                           IN [page |-> base \o Panels(DefaultPrompts, a.feedback),
                               extraction |-> e, analysis |-> a]
                      ELSE [page |-> base, extraction |-> e, analysis |-> NoAnalysis]
                 ELSE IF Truthy(in.custom_prompt) /\ in.pressed = "custom_analysis"
                      THEN LET a == analyze_single_prompt((IF e.text.isNone THEN <<>> ELSE e.text.s), in.custom_prompt.s,
                                                          replies["structure"])
                           IN [page |-> base \o << W("write", <<>>, a.feedback) >>,
                               extraction |-> e,
                               analysis |-> [feedback |-> EmptyFeedback,
                                             exchanges |-> a.exchanges,
                                             invocations |-> a.invocations]]
                      ELSE [page |-> base, extraction |-> e, analysis |-> NoAnalysis]
            ELSE [page |-> ErrorPage(e), extraction |-> e, analysis |-> NoAnalysis]

\* the body under "if uploaded_file:" (the same in both scripts, widget keys
\* apart); in holds the widget values of this run
ResumeTab(in, replies) ==
    IF ~in.uploaded.present
    THEN [page |-> <<>>, extraction |-> NoExtraction, analysis |-> NoAnalysis]
    ELSE LET e == extract_text(in.uploaded)
             base == << W("success", <<>>, Str(<<"Resume text extracted successfully!">>)),
                        W("text_area", <<"Extracted Text">>, e.text) >>
         IN IF Truthy(e.text)
            THEN IF in.analysis_type = "Default Analysis"
                 THEN IF in.pressed = "analyze_resume"
                      THEN LET a == analyze_resume(e.text.s, NoCatalog, replies)
                           IN [page |-> base \o Panels(DefaultPrompts, a.feedback),
                               extraction |-> e, analysis |-> a]
                      ELSE [page |-> base, extraction |-> e, analysis |-> NoAnalysis]
                 ELSE IF Truthy(in.custom_prompt) /\ in.pressed = "custom_analysis"
                      THEN LET a == analyze_single_prompt(e.text.s, in.custom_prompt.s,
                                                          replies["structure"])
                           IN [page |-> base \o << W("write", <<>>, a.feedback) >>,
                               extraction |-> e,
                               analysis |-> [feedback |-> EmptyFeedback,
                                             exchanges |-> a.exchanges,
                                             invocations |-> a.invocations]]
                      ELSE [page |-> base, extraction |-> e, analysis |-> NoAnalysis]
            ELSE [page |-> ErrorPage(e), extraction |-> e, analysis |-> NoAnalysis]

\* ResumeAnalyzer() raised ValueError: except ValueError
ConfigErrorRun ==
    [page |-> << W("error", <<>>, Str(<<"Configuration Error: ",
                                          "GROQ_API_KEY not found in Streamlit secrets">>)),
                 W("info", <<>>, Str(<<"<configure the key>">>)) >>,
     extraction |-> NoExtraction, analysis |-> NoAnalysis]

\* the methods class ResumeAnalyzer defines
AnalyzerMethods ==
    { "__init__", "extract_text_from_pdf", "extract_text_from_docx", "extract_text",
      "get_feedback_from_model", "analyze_resume", "analyze_single_prompt" }

\* analyzer.<method>(...) on a method the class lacks raises AttributeError,
\* which main's "except Exception" turns into an error on the page
MissingMethodRun(method) ==
    [page |-> << W("error", <<>>, Str(<<"An error occurred: ",
                     "'ResumeAnalyzer' object has no attribute '", method, "'">>)),
                 W("info", <<>>, Str(<<"<try again>">>)) >>,
     extraction |-> NoExtraction, analysis |-> NoAnalysis]

\* main of agent.py
agent_main(has_key, in, replies) ==
    IF ~has_key THEN ConfigErrorRun ELSE ResumeTab(in, replies)

\* main of strUi.py: tab1 runs before tab2, and an exception ends the run
strUi_main(has_key, in, replies) ==
    IF ~has_key THEN ConfigErrorRun
    ELSE IF Truthy(in.job_title) /\ in.pressed = "search_jobs"
              /\ "search_jobs" \notin AnalyzerMethods
         THEN MissingMethodRun("search_jobs")
         ELSE IF Truthy(in.company_name) /\ in.pressed = "generate_faqs"
                   /\ "generate_interview_questions" \notin AnalyzerMethods
              THEN MissingMethodRun("generate_interview_questions")
              ELSE ResumeTab(in, replies)

(***************************************************************************)
(* Inputs                                                                  *)
(***************************************************************************)
ResumeTexts == { <<"a">>, <<"a", "\n", "b">> }
CustomPrompts == { <<"<custom prompt>">>, <<"<other prompt>">> }

\* one reply per category of the catalog in use
ReplyMaps(prompts) == [KeysOf(EffectivePrompts(prompts)) -> Replies]

ExtractInputs == Streams \cup BrokenStreams \cup {NoFile}

\* st.file_uploader(type=['pdf', 'docx']) hands over a fresh stream whose
\* name ends in one of these extensions, or None
UiNames == { n \in {<<"r", ".", "p", "d", "f">>, <<"r", ".", "D", "o", "c", "X">>} :
                Lower(SplitExt(n)) \in {PdfExt, DocxExt} }

UiContents ==
    { c \in Contents : /\ Len(c.pages) <= 1 /\ Len(c.paras) <= 1
                       /\ c.size > 0 /\ c.fmt # "doc"
                       /\ \A i \in 1..Len(c.pages) : ~c.pages[i].val.isNone
                       /\ \A i \in 1..Len(c.paras) : c.paras[i] # <<>> }

UiUploads ==
    { f \in Streams : /\ f.name \in UiNames /\ f.content \in UiContents
                      /\ f.content.fmt = "pdf" => Lower(SplitExt(f.name)) = PdfExt
                      /\ f.content.fmt = "docx" => Lower(SplitExt(f.name)) = DocxExt
                      /\ f.pos = 0 /\ ~f.lenient }
    \cup {NoFile}

UiReplies == { r \in Replies : r.content \in {Str(<<"<model text>">>), Str(<<"Connection error.">>)} }

\* the widgets of agent.py's page
AgentInputs ==
    [ job_title : {EmptyStr},
      company_name : {EmptyStr},
      uploaded : UiUploads,
      analysis_type : {"Default Analysis", "Custom Prompt"},
      custom_prompt : {EmptyStr, Str(<<"<custom prompt>">>)},
      pressed : {"none", "analyze_resume", "custom_analysis"} ]

\* the widgets of strUi.py's page; a button that is not drawn (its text
\* input is empty) cannot have been pressed
StrUiInputs ==
    { in \in [ job_title : {EmptyStr, Str(<<"Software Engineer">>)},
               company_name : {EmptyStr, Str(<<"Google">>)},
               uploaded : UiUploads,
               analysis_type : {"Default Analysis", "Custom Prompt"},
               custom_prompt : {EmptyStr, Str(<<"<custom prompt>">>)},
               pressed : {"none", "analyze_resume", "custom_analysis",
                          "search_jobs", "generate_faqs"} ] :
        /\ in.pressed = "search_jobs" => Truthy(in.job_title)
        /\ in.pressed = "generate_faqs" => Truthy(in.company_name) }


(***************************************************************************)
(* State                                                                   *)
(***************************************************************************)
VARIABLES
    hasKey,        \* whether st.secrets holds GROQ_API_KEY
    op,            \* the operation that ran last
    upload,        \* the uploaded stream
    posBefore,     \* its position when the last extract_text was called
    extraction,    \* what the last extract_text returned and left behind
    invocations,   \* invocations of get_feedback_from_model by the last operation
    calls,         \* invocations of get_feedback_from_model so far
    requests,      \* calls of client.chat.completions.create so far
    exchanges,     \* the requests of the last operation, with their replies
    prevRequests,  \* the requests of the operation before
    catalog,       \* the prompts argument of the last analyze_resume
    feedback,      \* what the last analysis returned
    pressed,       \* the button pressed in the last run of a script
    page           \* what the last run of a script wrote

vars == <<hasKey, op, upload, posBefore, extraction, invocations, calls, requests, exchanges,
          prevRequests, catalog, feedback, pressed, page>>

NoFeedback == [kind |-> "none", map |-> EmptyFeedback, single |-> None]

InitState(f, k) ==
    /\ hasKey = k
    /\ op = "init"
    /\ upload = f
    /\ posBefore = f.pos
    /\ extraction = NoExtraction
    /\ invocations = 0
    /\ calls = 0
    /\ requests = 0
    /\ exchanges = <<>>
    /\ prevRequests = <<>>
    /\ catalog = NoCatalog
    /\ feedback = NoFeedback
    /\ pressed = "none"
    /\ page = <<>>

\* an analyzer was constructed; nothing is uploaded
Init == InitState(NoFile, TRUE)

\* an analyzer was constructed and a caller holds some stream
InitExtract == \E f \in ExtractInputs : InitState(f, TRUE)

\* a script starts, with or without the key in its secrets
InitUi == \E k \in BOOLEAN : InitState(NoFile, k)

\* the effect of an analysis a on the remote endpoint's counters
Account(a) ==
    /\ calls + a.invocations <= MaxCalls
    /\ invocations' = a.invocations
    /\ calls' = calls + a.invocations
    /\ requests' = requests + Len(a.exchanges)
    /\ exchanges' = a.exchanges
    /\ prevRequests' = Requests(exchanges)

\* extract_text(upload): the stream keeps the position the call left
ExtractText ==
    LET e == extract_text(upload)
    IN /\ op' = "extract_text"
       /\ posBefore' = upload.pos
       /\ extraction' = e
       /\ upload' = [upload EXCEPT !.pos = e.pos]
       /\ UNCHANGED <<hasKey, invocations, calls, requests, exchanges, prevRequests, catalog,
                      feedback, pressed, page>>

\* the caller moves the stream (file.seek, file.read)
Seek ==
    \E p \in 0..upload.content.size :
        /\ upload.present /\ ~upload.closed /\ p # upload.pos
        /\ op' = "seek"
        /\ upload' = [upload EXCEPT !.pos = p]
        /\ UNCHANGED <<hasKey, posBefore, extraction, invocations, calls, requests, exchanges,
                       prevRequests, catalog, feedback, pressed, page>>

GetFeedback ==
    \E t \in ResumeTexts, p \in CustomPrompts, r \in Replies :
        LET g == get_feedback_from_model(t, p, r)
        IN /\ op' = "get_feedback_from_model"
           /\ Account([feedback |-> g.ret, exchanges |-> g.exchanges, invocations |-> 1])
           /\ feedback' = [kind |-> "single", map |-> EmptyFeedback, single |-> g.ret]
           /\ UNCHANGED <<hasKey, upload, posBefore, extraction, catalog, pressed, page>>

AnalyzeResume ==
    \E t \in ResumeTexts, c \in Catalogs :
        /\ calls + Len(EffectivePrompts(c)) <= MaxCalls
        /\ \E rs \in ReplyMaps(c) :
            LET a == analyze_resume(t, c, rs)
            IN /\ op' = "analyze_resume"
               /\ Account(a)
               /\ catalog' = c
               /\ feedback' = [kind |-> "map", map |-> a.feedback, single |-> None]
               /\ UNCHANGED <<hasKey, upload, posBefore, extraction, pressed, page>>

AnalyzeSinglePrompt ==
    \E t \in ResumeTexts, p \in CustomPrompts, r \in Replies :
        LET a == analyze_single_prompt(t, p, r)
        IN /\ op' = "analyze_single_prompt"
           /\ Account(a)
           /\ feedback' = [kind |-> "single", map |-> EmptyFeedback, single |-> a.feedback]
           /\ UNCHANGED <<hasKey, upload, posBefore, extraction, catalog, pressed, page>>

\* whether a run with widget values in reaches analyze_resume
NeedsReplies(in) ==
    /\ hasKey /\ in.uploaded.present
    /\ in.pressed = "analyze_resume"
    /\ in.analysis_type = "Default Analysis"

\* the replies a run can get: one per category when it reaches
\* analyze_resume, and otherwise one at most
UiReplyMaps(in) ==
    IF NeedsReplies(in) /\ calls + Len(DefaultPrompts) <= MaxCalls
    THEN [KeysOf(DefaultPrompts) -> UiReplies]
    ELSE { [k \in KeysOf(DefaultPrompts) |-> r] :
             r \in IF in.pressed = "custom_analysis" THEN UiReplies
                   ELSE {CHOOSE x \in UiReplies : TRUE} }

\* what a run r of a script with widget values in leaves behind
Ran(name, in, r) ==
    /\ op' = name
    /\ Account(r.analysis)
    /\ upload' = [in.uploaded EXCEPT !.pos = r.extraction.pos]
    /\ posBefore' = in.uploaded.pos
    /\ extraction' = r.extraction
    /\ pressed' = in.pressed
    /\ page' = r.page
    /\ UNCHANGED <<hasKey, catalog, feedback>>

AgentMain ==
    \E in \in AgentInputs :
        \E rs \in UiReplyMaps(in) :
            Ran("agent.main", in, agent_main(hasKey, in, rs))

StrUiMain ==
    \E in \in StrUiInputs :
        \E rs \in UiReplyMaps(in) :
            Ran("strUi.main", in, strUi_main(hasKey, in, rs))

NextExtract == ExtractText \/ Seek
NextFeedback == GetFeedback \/ AnalyzeResume \/ AnalyzeSinglePrompt
NextUi == AgentMain \/ StrUiMain

\* the analyzer called directly
SpecExtract == InitExtract /\ [][NextExtract]_vars
SpecFeedback == Init /\ [][NextFeedback]_vars
\* the scripts run by Streamlit
SpecUi == InitUi /\ [][NextUi]_vars

(***************************************************************************)
(* The claims                                                              *)
(***************************************************************************)
\* the stream as the last extract_text received it
Given == [upload EXCEPT !.pos = posBefore]

GivenExt == Lower(SplitExt(Given.name))

SupportedExts == {PdfExt, DocxExt, DocExt}

\* a well-formed document under a supported name, given from its start:
\* a PDF named .pdf, a DOCX named .docx or .doc
SupportedDocument ==
    /\ Given.present /\ Given.hasName /\ ~Given.closed /\ Given.pos = 0
    /\ Given.content.size > 0
    /\ \/ GivenExt = PdfExt /\ Given.content.fmt = "pdf"
       \/ GivenExt \in {DocxExt, DocExt} /\ Given.content.fmt = "docx"

PageHasText(pg) == ~pg.raises /\ ~pg.val.isNone /\ Strip(pg.val.s) # <<>>
PageBlank(pg) == ~pg.raises /\ (pg.val.isNone \/ Strip(pg.val.s) = <<>>)
PageEmpty(pg) == ~pg.raises /\ (pg.val.isNone \/ pg.val.s = <<>>)

\* the content holds text that is not whitespace
HasText(c) ==
    \/ \E i \in 1..Len(c.pages) : PageHasText(c.pages[i])
    \/ \E i \in 1..Len(c.paras) : Strip(c.paras[i]) # <<>>

\* the content holds nothing but whitespace
BlankContent(c) ==
    /\ \A i \in 1..Len(c.pages) : PageBlank(c.pages[i])
    /\ \A i \in 1..Len(c.paras) : Strip(c.paras[i]) = <<>>

\* every page of the content yields some text
EveryPageYields(c) ==
    \A i \in 1..Len(c.pages) : ~c.pages[i].raises /\ ~PageEmpty(c.pages[i])

Extracted == op = "extract_text" /\ extraction.called

\* the catalog handed to the last analyze_resume, None standing for the default
SuppliedItems == IF catalog.isNone THEN DefaultPrompts ELSE catalog.items

\* a reply that is a failure of the remote call: an exception, no choices,
\* or a first message without content
Failed(reply) == reply.kind # "ok" \/ reply.content.isNone

ErrorShaped(v) == ~v.isNone /\ Contains(v.s, <<"Error getting feedback">>)

\* C1 (as stated): analyze_resume over a catalog of N entries, N >= 0, invokes
\* get_feedback_from_model N times and returns a mapping whose keys are
\* the N keys of the catalog.
C1_EveryCatalog ==
    op = "analyze_resume" =>
        /\ invocations = Len(SuppliedItems)
        /\ DOMAIN feedback.map = KeysOf(SuppliedItems)
        /\ Cardinality(DOMAIN feedback.map) = Len(SuppliedItems)

\* C2 (as stated): a supported document whose content holds text that is
\* not whitespace yields non-empty text and an empty error, also a PDF with
\* a page of text and a page without.
C2_AnyTextDocument ==
    (Extracted /\ SupportedDocument /\ HasText(Given.content)) =>
        (Truthy(extraction.text) /\ extraction.error = EmptyStr)

\* C2 (amended): a supported document whose content holds text that is not
\* whitespace, and every page of which (if a PDF) yields some text, yields
\* non-empty text and an empty error; a PDF whose first page without
\* text is page n, no page before it raising, yields no text and an error
\* naming page n.
C2_TextOnEveryPage ==
    (Extracted /\ SupportedDocument) =>
        /\ (HasText(Given.content) /\ EveryPageYields(Given.content)) =>
              (Truthy(extraction.text) /\ extraction.error = EmptyStr)
        /\ \A n \in 1..Len(Given.content.pages) :
              ( /\ GivenExt = PdfExt
                /\ PageEmpty(Given.content.pages[n])
                /\ \A i \in 1..(n - 1) : ~Given.content.pages[i].raises
                                           /\ ~PageEmpty(Given.content.pages[i]) ) =>
                  ( /\ ~Truthy(extraction.text)
                    /\ extraction.error =
                         Str(<<"Page ", ToString(n), " appears to be empty or unreadable">>) )

C2_Witness ==
    /\ Extracted /\ SupportedDocument
    /\ Len(Given.content.pages) = 2
    /\ HasText(Given.content) /\ EveryPageYields(Given.content)
    /\ Truthy(extraction.text) /\ extraction.error = EmptyStr

\* C3: every result of extract_text has either non-empty text or a non-empty
\* error, never both and never neither; a zero-byte or whitespace-only
\* document under a supported name yields no text and a non-empty error.
C3_TextXorError ==
    Extracted =>
        /\ Truthy(extraction.text) # Truthy(extraction.error)
        /\ ( /\ Given.present /\ Given.hasName /\ GivenExt \in SupportedExts
             /\ (Given.content.size = 0 \/ BlankContent(Given.content)) ) =>
               (~Truthy(extraction.text) /\ Truthy(extraction.error))

C3_Witness ==
    /\ Extracted /\ SupportedDocument
    /\ GivenExt = PdfExt
    /\ Len(Given.content.pages) > 0 /\ BlankContent(Given.content)
    /\ EveryPageYields(Given.content)
    /\ ~Truthy(extraction.text) /\ Truthy(extraction.error)

\* C4: a file whose extension, in lower case, is none of .pdf, .docx, .doc
\* (or that has none) yields no text, an error naming the extension, and no
\* extractor runs; a file with one of these extensions in any letter case
\* never yields the unsupported-type error.
C4_UnsupportedExtension ==
    (Extracted /\ Given.present /\ Given.hasName) =>
        IF GivenExt \in SupportedExts
        THEN ~Contains(extraction.error.s, <<"Unsupported file type: ">>)
        ELSE /\ extraction.text = None
             /\ Truthy(extraction.error)
             /\ Contains(extraction.error.s, <<"Unsupported file type: ">> \o GivenExt)
             /\ extraction.ran = {}

C4_Witness ==
    /\ Extracted /\ Given.present
    /\ Given.name = <<"r", ".", "P", "D", "F">>
    /\ extraction.ran = {"pdf"}
    /\ Truthy(extraction.text)

\* C5 (as stated): whatever position the stream is given at and however the
\* extraction ends, extract_text leaves the stream at that position.
C5_PositionKept ==
    Extracted => upload.pos = posBefore

\* C5 (amended): when an extractor has read the stream, extract_text leaves
\* it at position 0 whatever position it was given at and however the
\* extraction ends; when nothing was read (no file, no name, unsupported
\* extension, read raised) the position is as given.  So a stream given at
\* its start is left at its start.
C5_PositionReset ==
    Extracted =>
        /\ (extraction.ran # {} /\ ~Given.closed) => upload.pos = 0
        /\ (extraction.ran = {} \/ Given.closed) => upload.pos = posBefore
        /\ posBefore = 0 => upload.pos = 0

C5_Witness ==
    /\ Extracted
    /\ posBefore > 0 /\ upload.pos = 0
    /\ extraction.ran = {"docx"}
    /\ Truthy(extraction.text)

\* C6 (as stated): get_feedback_from_model returns "Error getting feedback:
\* {details}" on any failure of the remote call (exception, empty choices,
\* missing content) and the first completion's content on success.
C6_ErrorStringOnFailure ==
    (op = "get_feedback_from_model" /\ Len(exchanges) > 0) =>
        IF Failed(exchanges[1].reply)
        THEN /\ ~feedback.single.isNone
             /\ Len(feedback.single.s) >= 2
             /\ SubSeq(feedback.single.s, 1, 2) = <<"Error getting feedback", ": ">>
        ELSE feedback.single = exchanges[1].reply.content

\* the reply the last analysis got for category k of items
ReplyFor(items, k) == exchanges[PromptOf(items, k)].reply

\* C7 (as stated): in analyze_resume, whichever categories' remote calls
\* fail, the feedback step runs for every category and the result has one
\* entry per catalog key: error-shaped for the failing ones, the model text
\* for the others.
C7_IndependentCategories ==
    op = "analyze_resume" =>
        /\ invocations = Len(SuppliedItems)
        /\ Len(exchanges) = Len(SuppliedItems)
        /\ DOMAIN feedback.map = KeysOf(SuppliedItems)
        /\ \A k \in KeysOf(SuppliedItems) :
              IF Failed(ReplyFor(SuppliedItems, k))
              THEN ErrorShaped(feedback.map[k])
              ELSE feedback.map[k] = ReplyFor(SuppliedItems, k).content

\* C8: the requests issued to the remote endpoint are as many as the
\* invocations of get_feedback_from_model, one per invocation, whether it
\* failed or repeated an earlier (text, prompt).
C8_OneRequestPerInvocation ==
    /\ requests = calls
    /\ Len(exchanges) = invocations

C8_Witness ==
    /\ op = "analyze_single_prompt"
    /\ calls = 2 /\ requests = 2
    /\ Len(exchanges) = 1
    /\ prevRequests = Requests(exchanges)
    /\ exchanges[1].reply.kind = "raise"

UiRan == op \in {"agent.main", "strUi.main"}

\* C9: in a run of either script where extract_text returned no text, no
\* feedback step runs, no request is made and the error is displayed; a
\* run makes requests only after an extraction with non-empty text, and
\* each request carries that text.
C9_ErrorHaltsAnalysis ==
    UiRan =>
        /\ (extraction.called /\ ~Truthy(extraction.text)) =>
              /\ invocations = 0
              /\ exchanges = <<>>
              /\ Len(page) > 0
              /\ page[1] = W("error", <<>>, extraction.error)
        /\ (invocations > 0 \/ exchanges # <<>>) =>
              /\ extraction.called /\ Truthy(extraction.text)
              /\ \A i \in 1..Len(exchanges) :
                    Contains(exchanges[i].request,
                             <<"\n\nResume Text: ">> \o extraction.text.s)

C9_Witness ==
    /\ op = "strUi.main"
    /\ pressed = "analyze_resume"
    /\ extraction.called /\ ~Truthy(extraction.text)
    /\ exchanges = <<>>
    /\ page[1].w = "error"

\* C10 (as stated): in strUi.py, pressing "Search Jobs" with a job title or
\* "Generate Interview Questions" with a company name makes one request to
\* the remote endpoint and writes the reply to the page, with no error.
C10_JobSearchForwards ==
    (op = "strUi.main" /\ hasKey /\ pressed \in {"search_jobs", "generate_faqs"}) =>
        /\ Len(exchanges) = 1
        /\ \E i \in 1..Len(page) : page[i].w = "write"
        /\ \A i \in 1..Len(page) : page[i].w # "error"

====
